---------------------------- MODULE Spec2Model ----------------------------
(***************************************************************************)
(* Waterboy API server (backend/src/server.js): an express application     *)
(* whose routes each issue at most one SQL statement against the readings  *)
(* table through a connection pool.                                        *)
(*                                                                         *)
(* A handler keeps no state of its own between requests.  The turn of the  *)
(* event loop before `await pool.query(...)` reads only the request, the   *)
(* turn after it reads only the settled result, and the store executes the *)
(* one statement atomically.  The only thing the interleaving of requests  *)
(* decides is therefore the order in which their statements execute, and   *)
(* the model takes one step per request, at the moment its statement       *)
(* executes: requests handled in any order are requests interleaved in any *)
(* way.                                                                    *)
(***************************************************************************)
EXTENDS Integers, Sequences, FiniteSets

(***************************************************************************)
(* Bounds of the model.                                                    *)
(***************************************************************************)
MaxInserts == 3
MaxIngestInserts == 2
MaxHistoryInserts == 3
MaxRetentionInserts == 2
MaxTicks == 1
MaxHistoryTicks == 2

(***************************************************************************)
(* Program constants.                                                      *)
(***************************************************************************)
DefaultLimit == 100
DefaultDays == 30

(***************************************************************************)
(* JavaScript / JSON values, tagged with their type.                       *)
(***************************************************************************)
Undefined == [t |-> "undefined"]
Null == [t |-> "null"]
Num(n) == [t |-> "number", n |-> n]
Str(s) == [t |-> "string", s |-> s]

\* ToBoolean(v) = false
Falsy(v) ==
    \/ v.t \in {"undefined", "null"}
    \/ v.t = "number" /\ v.n = 0
    \/ v.t = "string" /\ v.s = ""

\* a || b
Or(a, b) == IF Falsy(a) THEN b ELSE a

\* Decimal text of the numbers the model uses.
Decimals == {<<"0", 0>>, <<"1", 1>>, <<"2", 2>>, <<"3", 3>>, <<"4", 4>>,
             <<"30", 30>>, <<"100", 100>>}

\* String(n), as template interpolation and the pg driver produce it.
ToText(v) ==
    IF v.t = "number" THEN (CHOOSE p \in Decimals : p[2] = v.n)[1] ELSE v.s

\* The store's parse of a decimal text; -1 stands for "invalid input syntax".
ParseInt(s) ==
    IF \E p \in Decimals : p[1] = s
    THEN (CHOOSE p \in Decimals : p[1] = s)[2]
    ELSE -1

Min(a, b) == IF a <= b THEN a ELSE b

PotNames == <<"A", "B">>                       \* in collation order

VARIABLES
    readings,   \* rows of the readings table
    nextId,     \* next value of the id sequence
    now,        \* the store clock, in days
    req,        \* the request handled last
    resp        \* the response sent to it

vars == <<readings, nextId, now, req, resp>>

Body(pot_id, location, raw_value, moisture_percent, id, timestamp) ==
    [pot_id |-> pot_id, location |-> location, raw_value |-> raw_value,
     moisture_percent |-> moisture_percent, id |-> id, timestamp |-> timestamp]
NoBody == Body(Undefined, Undefined, Undefined, Undefined, Undefined, Undefined)
\* A body that is not JSON: bodyParser.json() gets no field out of it.
Unparsed == [t |-> "unparsed"]
BadBody == Body(Unparsed, Unparsed, Unparsed, Unparsed, Unparsed, Unparsed)

\* A request: its route, its JSON body, its :pot_id and its one query parameter.
Request(route, body, pot_id, query) ==
    [route |-> route, body |-> body, pot_id |-> pot_id, query |-> query]
Response(status, body) == [status |-> status, body |-> body]

Init ==
    /\ readings = {}
    /\ nextId = 1
    /\ now = 0
    /\ req = Request("none", NoBody, "", Undefined)
    /\ resp = Response(0, [success |-> TRUE])

(***************************************************************************)
(* The store: the readings table and the five statements of the handlers.  *)
(***************************************************************************)
PotRank(p) == CHOOSE i \in 1..Len(PotNames) : PotNames[i] = p.s

\* All orders of the rows of S that ORDER BY admits; <<a, b>> \in le says that
\* a may come before b.  Rows the sort key does not separate come in any order.
Orderings(S, le) ==
    {o \in [1..Cardinality(S) -> S] :
        /\ \A i, j \in 1..Cardinality(S) : i # j => o[i] # o[j]
        /\ \A i, j \in 1..Cardinality(S) : i < j => <<o[i], o[j]>> \in le}

\* The rows of sequence o at the positions in K, in order.
Pick(o, K) ==
    [j \in 1..Cardinality(K) |->
        o[CHOOSE i \in K : Cardinality({k \in K : k < i}) = j - 1]]

\* NOT NULL columns of the readings table: pot_id, raw_value, moisture_percent.
\* The driver sends an undefined parameter as NULL.
NotNullViolation(values) ==
    \E i \in {1, 3, 4} : values[i].t \in {"null", "undefined"}

\* The value the id sequence hands out after n.
NextSerial(n) == n + 1

\* INSERT INTO readings (...) VALUES ($1, $2, $3, $4, NOW()) RETURNING *
\* Variant: the timestamp column left to a constant instead of NOW().
InsertRowNoClock(values, id, clock) ==
    [id |-> id, pot_id |-> values[1], location |-> values[2],
     raw_value |-> values[3], moisture_percent |-> values[4],
     timestamp |-> 0]
\* Variant: the id column written by the statement instead of the sequence.
InsertRowFixedId(values, id, clock) ==
    [id |-> 1, pot_id |-> values[1], location |-> values[2],
     raw_value |-> values[3], moisture_percent |-> values[4],
     timestamp |-> clock]
InsertRow(values, id, clock) ==
    [id |-> id, pot_id |-> values[1], location |-> values[2],
     raw_value |-> values[3], moisture_percent |-> values[4],
     timestamp |-> clock]

\* SELECT * FROM readings WHERE pot_id = $1 ORDER BY timestamp DESC LIMIT $2
\* Variant: ORDER BY timestamp ASC.
TimestampAsc(a, b) == a.timestamp <= b.timestamp
TimestampDesc(a, b) == a.timestamp >= b.timestamp
SelectHistory(rows, pot_id, limit) ==
    LET matching == {r \in rows : r.pot_id = pot_id}
        le == {p \in matching \X matching : TimestampDesc(p[1], p[2])}
    IN  {SubSeq(o, 1, Min(limit, Len(o))) : o \in Orderings(matching, le)}

\* SELECT DISTINCT ON (pot_id) pot_id, location, raw_value, moisture_percent,
\* timestamp FROM readings ORDER BY pot_id, timestamp DESC
LatestColumns(r) ==
    [pot_id |-> r.pot_id, location |-> r.location, raw_value |-> r.raw_value,
     moisture_percent |-> r.moisture_percent, timestamp |-> r.timestamp]
\* Variant: ORDER BY pot_id, timestamp (ascending).
PotThenTimestampAsc(a, b) ==
    \/ PotRank(a.pot_id) < PotRank(b.pot_id)
    \/ a.pot_id = b.pot_id /\ a.timestamp <= b.timestamp
PotThenTimestampDesc(a, b) ==
    \/ PotRank(a.pot_id) < PotRank(b.pot_id)
    \/ a.pot_id = b.pot_id /\ a.timestamp >= b.timestamp
FirstOfPot(o, i) == i = 1 \/ o[i - 1].pot_id # o[i].pot_id
SelectLatest(rows) ==
    {LET K == {i \in 1..Len(o) : FirstOfPot(o, i)}
         kept == Pick(o, K)
     IN  [j \in 1..Cardinality(K) |-> LatestColumns(kept[j])] :
        o \in Orderings(rows,
                {p \in rows \X rows : PotThenTimestampDesc(p[1], p[2])})}

\* SELECT pot_id, location, COUNT(*) as reading_count, MAX(timestamp) as
\* last_reading FROM readings GROUP BY pot_id, location ORDER BY pot_id
\* Variant: GROUP BY pot_id alone.
GroupKeyPotOnly(r, g) == r.pot_id = g[1]
GroupKey(r, g) == r.pot_id = g[1] /\ r.location = g[2]
GroupRow(rows, g) ==
    LET members == {r \in rows : GroupKey(r, g)}
    IN  [pot_id |-> g[1], location |-> g[2],
         reading_count |-> Cardinality(members),
         last_reading |->
            CHOOSE t \in {r.timestamp : r \in members} :
                \A r \in members : r.timestamp <= t]
PotAsc(a, b) == PotRank(a.pot_id) <= PotRank(b.pot_id)
SelectPots(rows) ==
    LET groups == {GroupRow(rows, <<r.pot_id, r.location>>) : r \in rows}
    IN  Orderings(groups, {p \in groups \X groups : PotAsc(p[1], p[2])})

\* DELETE FROM readings WHERE timestamp < NOW() - INTERVAL '<days> days'
\* Variant: timestamp <= NOW() - INTERVAL.
ExpiredInclusive(rows, clock, days) == {r \in rows : r.timestamp <= clock - days}
Expired(rows, clock, days) == {r \in rows : r.timestamp < clock - days}

\* The store's reading of a LIMIT parameter sent as a number or as text.
ToBigint(v) == IF v.t = "number" THEN v.n ELSE ParseInt(v.s)

Statement(sql, values, text) == [sql |-> sql, values |-> values, text |-> text]

Resolved(rows, rowCount, table, seq) ==
    [ok |-> TRUE, message |-> "", rows |-> rows, rowCount |-> rowCount,
     readings |-> table, nextId |-> seq]
Rejected(message) ==
    [ok |-> FALSE, message |-> message, rows |-> <<>>, rowCount |-> 0,
     readings |-> readings, nextId |-> nextId]

\* pool.query(stmt): every way the promise can settle in the current store
\* state.  A resolved result carries rows and rowCount, and the table and id
\* sequence the statement leaves behind; a rejected one leaves them as they
\* were.  Any statement may be rejected because the connection failed.  The
\* handler of DELETE ... RETURNING * reads rowCount only; its rows are left out.
PoolQuery(stmt) ==
    {Rejected("connection terminated")} \cup
    CASE stmt.sql = "INSERT" ->
            IF NotNullViolation(stmt.values)
            THEN {Rejected("null value violates not-null constraint")}
            ELSE LET row == InsertRow(stmt.values, nextId, now)
                 IN  {Resolved(<<row>>, 1, readings \cup {row}, NextSerial(nextId))}
      [] stmt.sql = "SELECT_HISTORY" ->
            LET limit == ToBigint(stmt.values[2])
            IN  IF limit < 0
                THEN {Rejected("invalid input syntax for type bigint")}
                ELSE {Resolved(rows, Len(rows), readings, nextId) :
                        rows \in SelectHistory(readings, stmt.values[1], limit)}
      [] stmt.sql = "SELECT_LATEST" ->
            {Resolved(rows, Len(rows), readings, nextId) :
                rows \in SelectLatest(readings)}
      [] stmt.sql = "SELECT_POTS" ->
            {Resolved(rows, Len(rows), readings, nextId) :
                rows \in SelectPots(readings)}
      [] stmt.sql = "DELETE" ->
            LET days == ParseInt(stmt.text)
            IN  IF days < 0
                THEN {Rejected("invalid input syntax for type interval")}
                ELSE LET gone == Expired(readings, now, days)
                     IN  {Resolved(<<>>, Cardinality(gone), readings \ gone, nextId)}

(***************************************************************************)
(* The handlers, one action each: the request comes in, its statement (if  *)
(* it gets as far as one) executes and settles, the response goes out.     *)
(***************************************************************************)
\* The statement executes with this result.
Settle(result) ==
    /\ readings' = result.readings
    /\ nextId' = result.nextId
    /\ UNCHANGED now

\* app.get('/health')
Health ==
    /\ req' = Request("GET /health", NoBody, "", Undefined)
    /\ resp' = Response(200, [status |-> "ok", timestamp |-> now])
    /\ UNCHANGED <<readings, nextId, now>>

\* app.post('/api/moisture')
\* Variant: the check of moisture_percent left out.
MissingFieldsNoPercent(pot_id, raw_value, moisture_percent) ==
    \/ Falsy(pot_id)
    \/ raw_value.t = "undefined"
\* Variant: presence tested by truthiness, !raw_value || !moisture_percent.
MissingFieldsFalsy(pot_id, raw_value, moisture_percent) ==
    \/ Falsy(pot_id)
    \/ Falsy(raw_value)
    \/ Falsy(moisture_percent)
MissingFields(pot_id, raw_value, moisture_percent) ==
    \/ Falsy(pot_id)
    \/ raw_value.t = "undefined"
    \/ moisture_percent.t = "undefined"
InsertValues(pot_id, location, raw_value, moisture_percent) ==
    <<pot_id, Or(location, Null), raw_value, moisture_percent>>
PostMoisture(body) ==
    /\ req' = Request("POST /api/moisture", body, "", Undefined)
    /\ IF MissingFields(body.pot_id, body.raw_value, body.moisture_percent)
       THEN /\ resp' = Response(400,
                [error |-> "Missing required fields: pot_id, raw_value, moisture_percent"])
            /\ UNCHANGED <<readings, nextId, now>>
       ELSE \E result \in PoolQuery(Statement("INSERT",
                    InsertValues(body.pot_id, body.location, body.raw_value,
                                 body.moisture_percent), "")) :
                /\ Settle(result)
                /\ resp' = IF result.ok
                           THEN Response(201, [success |-> TRUE,
                                               data |-> result.rows[1]])
                           ELSE Response(500, [error |-> "Failed to save reading",
                                               details |-> result.message])

\* app.get('/api/moisture/:pot_id')
HistoryLimit(limit) == Or(limit, Num(DefaultLimit))
GetMoisture(pot_id, limit) ==
    /\ req' = Request("GET /api/moisture/:pot_id", NoBody, pot_id, limit)
    /\ \E result \in PoolQuery(Statement("SELECT_HISTORY",
                        <<Str(pot_id), HistoryLimit(limit)>>, "")) :
        /\ Settle(result)
        /\ resp' = IF result.ok
                   THEN Response(200, [success |-> TRUE, pot_id |-> pot_id,
                                       count |-> Len(result.rows),
                                       data |-> result.rows])
                   ELSE Response(500, [error |-> "Failed to fetch readings",
                                       details |-> result.message])

\* app.get('/api/pots/latest')
GetPotsLatest ==
    /\ req' = Request("GET /api/pots/latest", NoBody, "", Undefined)
    /\ \E result \in PoolQuery(Statement("SELECT_LATEST", <<>>, "")) :
        /\ Settle(result)
        /\ resp' = IF result.ok
                   THEN Response(200, [success |-> TRUE,
                                       count |-> Len(result.rows),
                                       data |-> result.rows])
                   ELSE Response(500, [error |-> "Failed to fetch latest readings",
                                       details |-> result.message])

\* app.get('/api/pots')
GetPots ==
    /\ req' = Request("GET /api/pots", NoBody, "", Undefined)
    /\ \E result \in PoolQuery(Statement("SELECT_POTS", <<>>, "")) :
        /\ Settle(result)
        /\ resp' = IF result.ok
                   THEN Response(200, [success |-> TRUE,
                                       count |-> Len(result.rows),
                                       data |-> result.rows])
                   ELSE Response(500, [error |-> "Failed to fetch pots",
                                       details |-> result.message])

\* app.delete('/api/readings/cleanup')
\* Variant: the parameter read as a number first, Number(days) || 30.
DaysToKeepNumeric(days) ==
    IF days.t = "string" /\ ParseInt(days.s) >= 0
    THEN Or(Num(ParseInt(days.s)), Num(DefaultDays))
    ELSE Or(days, Num(DefaultDays))
DaysToKeep(days) == Or(days, Num(DefaultDays))
DeleteCleanup(days) ==
    /\ req' = Request("DELETE /api/readings/cleanup", NoBody, "", days)
    /\ \E result \in PoolQuery(Statement("DELETE", <<>>, ToText(DaysToKeep(days)))) :
        /\ Settle(result)
        /\ resp' = IF result.ok
                   THEN Response(200, [success |-> TRUE,
                                       deleted |-> result.rowCount,
                                       message |-> ToText(DaysToKeep(days))])
                   ELSE Response(500, [error |-> "Failed to cleanup readings",
                                       details |-> result.message])

\* app.use((err, req, res, next) => ...): reached when a middleware passes an
\* error on, as bodyParser.json() does for a body that is not JSON.
ErrorMiddleware ==
    /\ req' = Request("POST /api/moisture", BadBody, "", Undefined)
    /\ resp' = Response(500, [error |-> "Something went wrong!",
                              details |-> "Unexpected token in JSON"])
    /\ UNCHANGED <<readings, nextId, now>>

\* The store clock moves on, by a day or by a retention period.
Tick(d) ==
    /\ now' = now + d
    /\ UNCHANGED <<readings, nextId, req, resp>>

(***************************************************************************)
(* Specifications.  Each runs every handler in any order; they differ in   *)
(* the sets the requests are drawn from and in how far the clock moves.    *)
(***************************************************************************)
Validated(body) ==
    ~MissingFields(body.pot_id, body.raw_value, body.moisture_percent)
Handlers(bodies, inserts, pots, limits, days) ==
    \/ Health
    \/ ErrorMiddleware
    \/ \E body \in {b \in bodies : Validated(b) => nextId <= inserts} :
        PostMoisture(body)
    \/ \E p \in pots, limit \in limits : GetMoisture(p, limit)
    \/ GetPotsLatest
    \/ GetPots
    \/ \E d \in days : DeleteCleanup(d)

\* Snapshot and inventory: two pots, two locations.
Bodies ==
    {Body(p, l, Num(7), m, Undefined, Undefined) :
        p \in {Str("A"), Str("B")}, l \in {Undefined, Str("x")},
        m \in {Num(5)}} \cup
    {Body(Str("A"), Undefined, Num(7), Undefined, Undefined, Undefined)}
Next ==
    \/ Handlers(Bodies, MaxInserts, {"A"}, {Undefined}, {Str("0")})
    \/ \E d \in {d \in {1} : now < MaxTicks} : Tick(d)
Spec == Init /\ [][Next]_vars

\* Ingest: every way a body can carry, lack, null or zero a required field,
\* and complete bodies that also bring an empty location, an id and a timestamp.
IngestBodies ==
    {Body(p, Undefined, r, m, Undefined, Undefined) :
        p \in {Undefined, Null, Str(""), Str("A")},
        r \in {Undefined, Null, Num(0), Num(7)},
        m \in {Undefined, Num(0), Num(5)}} \cup
    {Body(Str("A"), Str(""), r, m, Num(1), Num(30)) :
        r \in {Num(0), Num(7)}, m \in {Num(0), Num(5)}}
NextIngest ==
    \/ Handlers(IngestBodies, MaxIngestInserts, {"A"}, {Undefined}, {Str("0")})
    \/ \E d \in {d \in {1} : now < MaxTicks} : Tick(d)
SpecIngest == Init /\ [][NextIngest]_vars

\* History: up to three readings of two pots, every kind of limit.
HistoryBodies ==
    {Body(p, Undefined, Num(7), m, Undefined, Undefined) :
        p \in {Str("A"), Str("B")}, m \in {Num(5)}} \cup
    {Body(Str("A"), Undefined, Num(7), Undefined, Undefined, Undefined)}
NextHistory ==
    \/ Handlers(HistoryBodies, MaxHistoryInserts, {"A", "B"},
                {Undefined, Str(""), Str("0"), Str("2"), Str("x")}, {Str("0")})
    \/ \E d \in {d \in {1} : now < MaxHistoryTicks} : Tick(d)
SpecHistory == Init /\ [][NextHistory]_vars

\* Retention: the clock also moves by a whole default period.
NextRetention ==
    \/ Handlers(HistoryBodies, MaxRetentionInserts, {"A"}, {Undefined},
                {Undefined, Str(""), Str("0"), Str("1"), Str("x")})
    \/ \E d \in {d \in {1} : now % DefaultDays < MaxTicks} : Tick(d)
    \/ \E d \in {d \in {DefaultDays} : now < DefaultDays} : Tick(d)
SpecRetention == Init /\ [][NextRetention]_vars

(***************************************************************************)
(* Properties.  A step that leaves the clock alone is a handler's step,    *)
(* and req', resp' are its request and response; readings, nextId and now  *)
(* are the store before it and readings' the store after it.               *)
(***************************************************************************)
HandlerStep(route) == now' = now /\ req'.route = route
Handled(route) == req.route = route
Ingest == "POST /api/moisture"
History == "GET /api/moisture/:pot_id"
Latest == "GET /api/pots/latest"
Inventory == "GET /api/pots"
Cleanup == "DELETE /api/readings/cleanup"

Absent(v) == v.t = "undefined"
AbsentField(body) ==
    Absent(body.pot_id) \/ Absent(body.raw_value) \/ Absent(body.moisture_percent)

\* C1: an ingest request whose pot_id, raw_value or moisture_percent is absent
\* is answered 400 and leaves the stored readings exactly as they were, in any
\* store state and whatever requests were handled before it.
C1_AbsentFieldRejected ==
    [][HandlerStep(Ingest) /\ AbsentField(req'.body)
        => resp'.status = 400 /\ readings' = readings]_vars

\* C1 witness: a request with pot_id and raw_value but no moisture_percent got
\* its 400 while the store held a reading.
C1_Witness ==
    /\ Handled(Ingest)
    /\ req.body.pot_id = Str("A")
    /\ req.body.raw_value = Num(7)
    /\ Absent(req.body.moisture_percent)
    /\ resp.status = 400
    /\ readings # {}

NonEmptyText(v) == v.t = "string" /\ v.s # ""
ZeroReading(body) ==
    /\ NonEmptyText(body.pot_id)
    /\ body.raw_value.t = "number"
    /\ body.moisture_percent.t = "number"
    /\ body.raw_value.n = 0 \/ body.moisture_percent.n = 0

\* C2: an ingest request with a non-empty pot_id whose raw_value or
\* moisture_percent is 0 is never answered 400; it is answered 201 exactly
\* when the store took the insert, and the row then stored and returned
\* carries the request's raw_value and moisture_percent, zeros included.
C2_ZeroIsNotMissing ==
    [][HandlerStep(Ingest) /\ ZeroReading(req'.body)
        => /\ resp'.status \in {201, 500}
           /\ resp'.status = 201 <=> readings' # readings
           /\ resp'.status = 201 =>
                /\ resp'.body.data \in readings' \ readings
                /\ resp'.body.data.raw_value = req'.body.raw_value
                /\ resp'.body.data.moisture_percent = req'.body.moisture_percent]_vars

\* C2 witness: a reading with raw_value 0 and moisture_percent 0 is stored.
C2_Witness ==
    /\ Handled(Ingest)
    /\ req.body.raw_value = Num(0)
    /\ req.body.moisture_percent = Num(0)
    /\ resp.status = 201
    /\ resp.body.data \in readings
    /\ resp.body.data.raw_value = Num(0)
    /\ resp.body.data.moisture_percent = Num(0)

AllRequired(body) ==
    /\ NonEmptyText(body.pot_id)
    /\ ~Absent(body.raw_value)
    /\ ~Absent(body.moisture_percent)

\* C3: an ingest request that carries all required fields is answered 201 or
\* 500, and 201 only when its store call succeeded.  On 201 the store has
\* grown by exactly one row, every earlier row is still there unchanged, the
\* response carries that row, and the row's id is the value of the store's
\* sequence and its timestamp the store's clock, whatever id and timestamp
\* the body brought, the id differing from every other stored id.
C3_OneRowAppended ==
    [][HandlerStep(Ingest) /\ AllRequired(req'.body)
        => /\ resp'.status \in {201, 500}
           /\ resp'.status = 201 =>
                LET row == resp'.body.data
                IN  /\ row \notin readings
                    /\ readings' = readings \cup {row}
                    /\ Cardinality(readings') = Cardinality(readings) + 1
                    /\ row.id = nextId
                    /\ row.timestamp = now
                    /\ \A r \in readings : r.id # row.id
                    /\ row.pot_id = req'.body.pot_id
                    /\ row.raw_value = req'.body.raw_value
                    /\ row.moisture_percent = req'.body.moisture_percent]_vars

\* C3 witness: a second reading was stored, after the clock had moved, from a
\* body that brought an id and a timestamp of its own.
C3_Witness ==
    /\ Handled(Ingest)
    /\ resp.status = 201
    /\ req.body.id.t = "number"
    /\ resp.body.data.id = 2
    /\ resp.body.data.timestamp = 1
    /\ Cardinality(readings) = 2

\* C9: every error response, the 400 of ingest and every 500, has a body with
\* both an error field and a details field.
C9_ErrorBodyShape ==
    resp.status >= 400 => {"error", "details"} \subseteq DOMAIN resp.body

\* A query parameter that is a decimal number, and the number a request asks
\* for: the default when the parameter is not there.
Numeric(q) == q.t = "string" /\ ParseInt(q.s) >= 0
Asked(q, default) == IF Absent(q) THEN default ELSE ParseInt(q.s)
Data == resp.body.data
Positions == 1..Len(Data)
OfPot(pot_id) == {r \in readings : r.pot_id = Str(pot_id)}

\* C4: a history request whose limit is absent or a number is answered 200
\* unless the store call itself fails.  Its rows are stored readings of the
\* requested pot_id, no reading twice, in descending timestamp order; there
\* are min(limit, number of readings of the pot) of them, limit being 100
\* when absent; and no reading left out is newer than a reading returned.
\* So three readings at t1 < t2 < t3 and limit 2 give [reading at t3, reading
\* at t2], and a pot_id without readings gives the empty list.
C4_HistoryNewestFirst ==
    Handled(History) /\ (Absent(req.query) \/ Numeric(req.query))
    => /\ resp.status \in {200, 500}
       /\ resp.status = 500 => resp.body.details = "connection terminated"
       /\ resp.status = 200 =>
            LET mine == OfPot(req.pot_id)
            IN  /\ \A i \in Positions : Data[i] \in mine
                /\ \A i, j \in Positions : i < j =>
                        /\ Data[i] # Data[j]
                        /\ Data[i].timestamp >= Data[j].timestamp
                /\ Len(Data) = Min(Asked(req.query, 100), Cardinality(mine))
                /\ \A r \in mine : \A i \in Positions :
                        r.timestamp > Data[i].timestamp
                            => \E j \in Positions : Data[j] = r
                /\ resp.body.count = Len(Data)

\* C4 witness: pot A has readings at 0, 1 and 2, pot B has none of these, and
\* history(A, limit=2) returned the readings at 2 and at 1, in that order.
C4_Witness ==
    /\ Handled(History)
    /\ req.pot_id = "A"
    /\ req.query = Str("2")
    /\ resp.status = 200
    /\ {r.timestamp : r \in OfPot("A")} = {0, 1, 2}
    /\ Len(Data) = 2
    /\ Data[1].timestamp = 2
    /\ Data[2].timestamp = 1

SameColumns(row, r) ==
    /\ row.pot_id = r.pot_id
    /\ row.location = r.location
    /\ row.raw_value = r.raw_value
    /\ row.moisture_percent = r.moisture_percent
    /\ row.timestamp = r.timestamp

\* C5: a successful latestPerPot returns one row for each pot_id that has a
\* stored reading and none for any other; each row has the columns of a
\* stored reading of its pot whose timestamp is the greatest among that pot's
\* readings; rows are in ascending pot_id order.
C5_LatestOnePerPot ==
    Handled(Latest) /\ resp.status = 200
    => /\ {Data[i].pot_id : i \in Positions} = {r.pot_id : r \in readings}
       /\ Len(Data) = Cardinality({r.pot_id : r \in readings})
       /\ \A i, j \in Positions :
            i < j => PotRank(Data[i].pot_id) < PotRank(Data[j].pot_id)
       /\ \A i \in Positions : \E r \in readings :
            /\ SameColumns(Data[i], r)
            /\ \A q \in readings :
                q.pot_id = r.pot_id => q.timestamp <= r.timestamp

\* C5 witness: pot A has an older and a newer reading, pot B has one, and the
\* snapshot has two rows, the first of them A's newer reading.
C5_Witness ==
    /\ Handled(Latest)
    /\ resp.status = 200
    /\ Cardinality(OfPot("A")) = 2
    /\ Cardinality(OfPot("B")) = 1
    /\ \E r \in OfPot("A") : r.timestamp < Data[1].timestamp
    /\ Len(Data) = 2

Pairs == {<<r.pot_id, r.location>> : r \in readings}
OfPair(pot_id, location) ==
    {r \in readings : r.pot_id = pot_id /\ r.location = location}

\* C6: a successful listPots returns one row for each (pot_id, location)
\* pair some stored reading has and none for any other pair; a row's
\* reading_count is the number of stored readings with its pair and its
\* last_reading their greatest timestamp; rows are in ascending pot_id order.
C6_InventoryPerPair ==
    Handled(Inventory) /\ resp.status = 200
    => /\ {<<Data[i].pot_id, Data[i].location>> : i \in Positions} = Pairs
       /\ Len(Data) = Cardinality(Pairs)
       /\ \A i, j \in Positions :
            i < j => PotRank(Data[i].pot_id) <= PotRank(Data[j].pot_id)
       /\ \A i \in Positions :
            LET members == OfPair(Data[i].pot_id, Data[i].location)
            IN  /\ Data[i].reading_count = Cardinality(members)
                /\ \E r \in members : r.timestamp = Data[i].last_reading
                /\ \A r \in members : r.timestamp <= Data[i].last_reading

\* C6 witness: pot A was stored with two locations, twice with one of them,
\* and the inventory lists it twice, once with reading_count 2.
C6_Witness ==
    /\ Handled(Inventory)
    /\ resp.status = 200
    /\ Len(Data) = 2
    /\ Data[1].pot_id = Str("A")
    /\ Data[2].pot_id = Str("A")
    /\ \E i \in Positions : Data[i].reading_count = 2

\* C7: a successful cleanup whose days is absent or a number, days being 30
\* when absent, removes the readings whose timestamp is older than the store
\* clock minus days and no other, leaves the rest as they were, and returns
\* as deleted the number of rows removed.
C7_CleanupRemovesOlder ==
    [][HandlerStep(Cleanup) /\ (Absent(req'.query) \/ Numeric(req'.query))
            /\ resp'.status = 200
        => /\ readings' =
                {r \in readings : ~(r.timestamp < now - Asked(req'.query, 30))}
           /\ resp'.body.deleted = Cardinality(readings) - Cardinality(readings')]_vars

\* C7 witness: a cleanup without days removed a reading and kept another.
C7_Witness ==
    /\ Handled(Cleanup)
    /\ Absent(req.query)
    /\ resp.status = 200
    /\ resp.body.deleted = 1
    /\ readings # {}

\* C8 as stated: a successful cleanup(days=0) removes every reading there
\* is, those just ingested included, and returns the row count before it; a
\* history that follows with nothing handled in between is empty.
C8_CleanupZeroRemovesAll ==
    [][/\ HandlerStep(Cleanup) /\ req'.query = Str("0") /\ resp'.status = 200
          => /\ readings' = {}
             /\ resp'.body.deleted = Cardinality(readings)
       /\ /\ Handled(Cleanup) /\ req.query = Str("0") /\ resp.status = 200
          /\ HandlerStep(History) /\ resp'.status = 200
          => resp'.body.data = <<>>]_vars

\* C8 amended: a successful cleanup(days=0) removes the readings whose
\* timestamp is before the store clock at the call and returns their number;
\* a reading stamped with that very clock value stays.  It removes every
\* reading, and returns the row count before it, when none is stamped so; a
\* history that follows with nothing handled in between returns the readings
\* of its pot that stayed, the empty list if there are none.
C8_CleanupZeroRemovesEarlier ==
    [][/\ HandlerStep(Cleanup) /\ req'.query = Str("0") /\ resp'.status = 200
          => /\ readings' = {r \in readings : r.timestamp = now}
             /\ resp'.body.deleted = Cardinality({r \in readings : r.timestamp < now})
             /\ (\A r \in readings : r.timestamp # now)
                    => /\ readings' = {}
                       /\ resp'.body.deleted = Cardinality(readings)
       /\ /\ Handled(Cleanup) /\ req.query = Str("0") /\ resp.status = 200
          /\ HandlerStep(History) /\ Absent(req'.query) /\ resp'.status = 200
          => /\ {resp'.body.data[i] : i \in 1..Len(resp'.body.data)}
                    = {r \in readings : r.pot_id = Str(req'.pot_id)}]_vars

\* C8 witness: cleanup(days=0) removed a reading and left one that had been
\* stored at the clock value of the call.
C8_Witness ==
    /\ Handled(Cleanup)
    /\ req.query = Str("0")
    /\ resp.status = 200
    /\ resp.body.deleted = 1
    /\ \E r \in readings : r.timestamp = now

\* What no request does: a stored reading stays as it is, a reading goes
\* only by a successful cleanup and comes only by a successful ingest, and
\* health, history, latestPerPot and listPots leave the store alone.
Frame ==
    /\ \A r \in readings, q \in readings' : r.id = q.id => r = q
    /\ readings \ readings' # {}
        => HandlerStep(Cleanup) /\ resp'.status = 200
    /\ readings' \ readings # {}
        => HandlerStep(Ingest) /\ resp'.status = 201
    /\ req'.route \notin {Ingest, Cleanup} => readings' = readings
Again(route) ==
    /\ Handled(route) /\ resp.status = 200
    /\ HandlerStep(route) /\ resp'.status = 200

\* C10 as stated: stored readings never change and go only by cleanup, the
\* reading operations leave the store alone, and latestPerPot or listPots
\* called again with no ingest or cleanup in between returns the same.
C10_RepeatReturnsIdentical ==
    [][/\ Frame
       /\ Again(Latest) \/ Again(Inventory) => resp'.body.data = resp.body.data]_vars

\* C10 amended: as stated, but a repeated call returns the same up to what
\* the statement leaves to the store: latestPerPot returns the same pot_ids
\* with the same timestamps (the row may be another of the pot's readings
\* that share its greatest timestamp), and listPots the same rows with the
\* same pot_id order (rows of one pot_id may change places).
C10_RepeatReturnsSameUpToTies ==
    [][/\ Frame
       /\ Again(Latest) =>
            /\ Len(resp'.body.data) = Len(resp.body.data)
            /\ \A i \in 1..Len(resp.body.data) :
                /\ resp'.body.data[i].pot_id = resp.body.data[i].pot_id
                /\ resp'.body.data[i].timestamp = resp.body.data[i].timestamp
       /\ Again(Inventory) =>
            /\ Len(resp'.body.data) = Len(resp.body.data)
            /\ {resp'.body.data[i] : i \in 1..Len(resp'.body.data)}
                    = {resp.body.data[i] : i \in 1..Len(resp.body.data)}
            /\ \A i \in 1..Len(resp.body.data) :
                resp'.body.data[i].pot_id = resp.body.data[i].pot_id]_vars

\* C10 witness: latestPerPot answered while two readings of pot A, stored at
\* the same clock value with different locations, shared A's greatest
\* timestamp.
C10_Witness ==
    /\ Handled(Latest)
    /\ resp.status = 200
    /\ Len(Data) = 1
    /\ \E r, q \in OfPot("A") :
        /\ r.location # q.location
        /\ r.timestamp = q.timestamp
        /\ r.timestamp = Data[1].timestamp

=============================================================================
